---- MODULE Spec2Model ----
(***************************************************************************)
(* State-machine model of the two FastMCP servers of the repository:       *)
(*   enhanced_calculator_mcp.py   calculator tools, value store, history   *)
(*   teradata_university_http.py  RSS search tools                         *)
(*                                                                         *)
(* Python strings that are compared or searched (store names, feed text)   *)
(* are sequences of code points; fixed literals (operation names, status   *)
(* words, message templates) are TLA+ strings.  An f-string is the tuple   *)
(* of its literal and interpolated parts.  A returned dict is a record.    *)
(***************************************************************************)
EXTENDS Integers, Sequences, FiniteSets, TLC

VARIABLES stored_values, calculation_history, calls, request, ret, pc

vars == <<stored_values, calculation_history, calls, request, ret, pc>>

\* ------------------------------------------------------------------ bounds
\* recording calls explored per run
MaxCalls == 12
\* recording calls per run that are not `add`
MaxOther == 1
\* recording calls in flight at once in the threaded dispatch
NumThreads == 2

\* ------------------------------------------------------------- tool inputs
\* float operands; all chosen so that every quotient and root is exact
FirstOperands == {6}
SecondOperands == {2}
Denominators == {0, 2}
Radicands == {-4, 4}
Totals == {0, 2}
\* "a" and "b"
Names == {<<97>>, <<98>>}
Values == {1, 2}

\* --------------------------------------------------------- Python builtins
\* a / b on floats, for the operands above (b divides a)
TrueDiv(a, b) == a \div b

\* math.sqrt on a perfect square
Sqrt(x) == CHOOSE r \in 0..x : r * r = x

RECURSIVE Pow(_, _)
Pow(base, exponent) == IF exponent = 0 THEN 1 ELSE base * Pow(base, exponent - 1)

\* str < str : lexicographic by code point
RECURSIVE StrLess(_, _)
StrLess(s, t) ==
    IF t = <<>> THEN FALSE
    ELSE IF s = <<>> THEN TRUE
    ELSE IF Head(s) # Head(t) THEN Head(s) < Head(t)
    ELSE StrLess(Tail(s), Tail(t))

\* (name, value) < (name, value) : tuple comparison
ItemLess(p, q) == IF p[1] # q[1] THEN StrLess(p[1], q[1]) ELSE p[2] < q[2]

RECURSIVE InsertSorted(_, _)
InsertSorted(p, s) ==
    IF s = <<>> THEN <<p>>
    ELSE IF ItemLess(p, Head(s)) THEN <<p>> \o s
    ELSE <<Head(s)>> \o InsertSorted(p, Tail(s))

\* sorted(d.items())
RECURSIVE sorted(_)
sorted(items) ==
    IF items = <<>> THEN <<>> ELSE InsertSorted(Head(items), sorted(Tail(items)))

\* reversed(list)
RECURSIVE reversed(_)
reversed(s) == IF s = <<>> THEN <<>> ELSE Append(reversed(Tail(s)), Head(s))

\* enumerate(list, 1)
enumerate1(s) == [i \in 1..Len(s) |-> <<i, s[i]>>]

\* ------------------------------------------------ dict in insertion order
\* a dict is the sequence of its (key, value) items in insertion order
Keys(d) == {d[i][1] : i \in 1..Len(d)}

\* d[name], for name in d
Lookup(d, name) == d[CHOOSE i \in 1..Len(d) : d[i][1] = name][2]

\* variant: every assignment adds an item, as a list of pairs would
dict_set_append(d, name, value) == Append(d, <<name, value>>)

\* d[name] = value : an existing key keeps its position
dict_set(d, name, value) ==
    IF name \in Keys(d)
    THEN [i \in 1..Len(d) |-> IF d[i][1] = name THEN <<name, value>> ELSE d[i]]
    ELSE Append(d, <<name, value>>)

\* ------------------------------------------------------------------ helpers
get_operator_symbol(operation) ==
    CASE operation = "add" -> "+"
      [] operation = "subtract" -> "-"
      [] operation = "multiply" -> "x"
      [] operation = "divide" -> "/"
      [] operation = "power" -> "^"
      [] OTHER -> operation

HistoryRecord(operation, a, b, result) ==
    [operation |-> operation,
     expression |-> <<a, get_operator_symbol(operation), b>>,
     result |-> result]

\* variant: pop() in place of pop(0), dropping the newest record
add_to_history_pop_last(history, operation, a, b, result) ==
    LET appended == Append(history, HistoryRecord(operation, a, b, result))
    IN IF Len(appended) > 10 THEN SubSeq(appended, 1, Len(appended) - 1) ELSE appended

\* variant: the length test is missing
add_to_history_unbounded(history, operation, a, b, result) ==
    Append(history, HistoryRecord(operation, a, b, result))

\* append, then drop the oldest record when more than 10 are held
add_to_history(history, operation, a, b, result) ==
    LET appended == Append(history, HistoryRecord(operation, a, b, result))
    IN IF Len(appended) > 10 THEN Tail(appended) ELSE appended

\* ------------------------------------------------------------------- state
Threads == 1..NumThreads

Init ==
    /\ stored_values = <<>>
    /\ calculation_history = <<>>
    /\ calls = <<>>
    /\ request = [tool |-> "none", args |-> <<>>]
    /\ ret = [status |-> "none"]
    /\ pc = [t \in Threads |-> "idle"]

Others(log) == Cardinality({i \in 1..Len(log) : log[i].operation # "add"})

\* the run may make one more recording call of this operation
WithinBounds(operation) ==
    /\ Len(calls) < MaxCalls
    /\ operation = "add" \/ Others(calls) < MaxOther

\* the effect of one call of _add_to_history; calls logs every such call
Recorded(operation, a, b, result) ==
    /\ calculation_history' = add_to_history(calculation_history, operation, a, b, result)
    /\ calls' = Append(calls, HistoryRecord(operation, a, b, result))

\* ------------------------------------------------------- arithmetic tools
add ==
    \E a \in FirstOperands, b \in SecondOperands :
        LET result == a + b IN
        /\ WithinBounds("add")
        /\ Recorded("add", a, b, result)
        /\ request' = [tool |-> "add", args |-> <<a, b>>]
        /\ ret' = [operation |-> "add", result |-> result,
                   expression |-> <<a, "+", b, "=", result>>]
        /\ UNCHANGED <<stored_values, pc>>

subtract ==
    \E a \in FirstOperands, b \in SecondOperands :
        LET result == a - b IN
        /\ WithinBounds("subtract")
        /\ Recorded("subtract", a, b, result)
        /\ request' = [tool |-> "subtract", args |-> <<a, b>>]
        /\ ret' = [operation |-> "subtract", result |-> result,
                   expression |-> <<a, "-", b, "=", result>>]
        /\ UNCHANGED <<stored_values, pc>>

multiply ==
    \E a \in FirstOperands, b \in SecondOperands :
        LET result == a * b IN
        /\ WithinBounds("multiply")
        /\ Recorded("multiply", a, b, result)
        /\ request' = [tool |-> "multiply", args |-> <<a, b>>]
        /\ ret' = [operation |-> "multiply", result |-> result,
                   expression |-> <<a, "x", b, "=", result>>]
        /\ UNCHANGED <<stored_values, pc>>

\* variant: the zero guard returns the error only after recording
divide_records_on_error ==
    \E a \in FirstOperands, b \in Denominators :
        /\ request' = [tool |-> "divide", args |-> <<a, b>>]
        /\ WithinBounds("divide")
        /\ IF b = 0
           THEN /\ Recorded("divide", a, b, 0)
                /\ ret' = [operation |-> "divide", error |-> "Cannot divide by zero"]
                /\ UNCHANGED <<stored_values, pc>>
           ELSE LET result == TrueDiv(a, b) IN
                /\ Recorded("divide", a, b, result)
                /\ ret' = [operation |-> "divide", result |-> result,
                           expression |-> <<a, "/", b, "=", result>>]
                /\ UNCHANGED <<stored_values, pc>>

divide ==
    \E a \in FirstOperands, b \in Denominators :
        /\ request' = [tool |-> "divide", args |-> <<a, b>>]
        /\ IF b = 0
           THEN /\ ret' = [operation |-> "divide", error |-> "Cannot divide by zero"]
                /\ UNCHANGED <<stored_values, calculation_history, calls, pc>>
           ELSE LET result == TrueDiv(a, b) IN
                /\ WithinBounds("divide")
                /\ Recorded("divide", a, b, result)
                /\ ret' = [operation |-> "divide", result |-> result,
                           expression |-> <<a, "/", b, "=", result>>]
                /\ UNCHANGED <<stored_values, pc>>

power ==
    \E base \in FirstOperands, exponent \in SecondOperands :
        LET result == Pow(base, exponent) IN
        /\ WithinBounds("power")
        /\ Recorded("power", base, exponent, result)
        /\ request' = [tool |-> "power", args |-> <<base, exponent>>]
        /\ ret' = [operation |-> "power", result |-> result,
                   expression |-> <<base, "^", exponent, "=", result>>]
        /\ UNCHANGED <<stored_values, pc>>

square_root ==
    \E number \in Radicands :
        /\ request' = [tool |-> "square_root", args |-> <<number>>]
        /\ IF number < 0
           THEN ret' = [operation |-> "square_root",
                        error |-> "Cannot calculate square root of negative number"]
           ELSE LET result == Sqrt(number) IN
                ret' = [operation |-> "square_root", result |-> result,
                        expression |-> <<"sqrt", number, "=", result>>]
        /\ UNCHANGED <<stored_values, calculation_history, calls, pc>>

percentage ==
    \E value \in FirstOperands, total \in Totals :
        /\ request' = [tool |-> "percentage", args |-> <<value, total>>]
        /\ IF total = 0
           THEN ret' = [operation |-> "percentage", error |-> "Total cannot be zero"]
           ELSE LET result == TrueDiv(value, total) * 100 IN
                ret' = [operation |-> "percentage", result |-> result,
                        expression |-> <<value, "is", result, "% of", total>>]
        /\ UNCHANGED <<stored_values, calculation_history, calls, pc>>

\* ----------------------------------------------------------- storage tools
store_number ==
    \E name \in Names, value \in Values :
        /\ stored_values' = dict_set(stored_values, name, value)
        /\ request' = [tool |-> "store_number", args |-> <<name, value>>]
        /\ ret' = [status |-> "success",
                   message |-> <<"Stored", name, "=", value>>,
                   stored_count |-> Len(stored_values')]
        /\ UNCHANGED <<calculation_history, calls, pc>>

\* variant: stored_values.get(name, 0) in place of the membership test
get_stored_number_default ==
    \E name \in Names :
        /\ request' = [tool |-> "get_stored_number", args |-> <<name>>]
        /\ ret' = [name |-> name,
                   value |-> IF name \in Keys(stored_values)
                             THEN Lookup(stored_values, name) ELSE 0,
                   status |-> "found"]
        /\ UNCHANGED <<stored_values, calculation_history, calls, pc>>

get_stored_number ==
    \E name \in Names :
        /\ request' = [tool |-> "get_stored_number", args |-> <<name>>]
        /\ IF name \in Keys(stored_values)
           THEN ret' = [name |-> name, value |-> Lookup(stored_values, name),
                        status |-> "found"]
           ELSE ret' = [name |-> name, status |-> "not_found",
                        error |-> <<"No stored value found for", name,
                                    "Use list_stored_numbers to see available values.">>]
        /\ UNCHANGED <<stored_values, calculation_history, calls, pc>>

\* returns the dict itself: its items come out in insertion order
list_stored_numbers ==
    /\ request' = [tool |-> "list_stored_numbers", args |-> <<>>]
    /\ ret' = [stored_values |-> stored_values,
               count |-> Len(stored_values),
               message |-> "Use get_stored_number(name) to retrieve a specific value"]
    /\ UNCHANGED <<stored_values, calculation_history, calls, pc>>

\* variant: the count is taken after the dict is cleared
clear_storage_count_after ==
    /\ stored_values' = <<>>
    /\ request' = [tool |-> "clear_storage", args |-> <<>>]
    /\ ret' = [status |-> "success",
               message |-> <<"Cleared", Len(stored_values'), "stored value(s)">>,
               stored_values |-> <<>>]
    /\ UNCHANGED <<calculation_history, calls, pc>>

clear_storage ==
    LET count == Len(stored_values) IN
    /\ stored_values' = <<>>
    /\ request' = [tool |-> "clear_storage", args |-> <<>>]
    /\ ret' = [status |-> "success",
               message |-> <<"Cleared", count, "stored value(s)">>,
               stored_values |-> <<>>]
    /\ UNCHANGED <<calculation_history, calls, pc>>

\* ---------------------------------------------------------------- resources
\* calculator://stored-values
get_stored_values ==
    /\ request' = [tool |-> "get_stored_values", args |-> <<>>]
    /\ IF stored_values = <<>>
       THEN ret' = [text |-> "No values stored yet."]
       ELSE ret' = [text |-> "Stored Values",
                    total |-> Len(stored_values),
                    lines |-> sorted(stored_values)]
    /\ UNCHANGED <<stored_values, calculation_history, calls, pc>>

\* one numbered line per record, over reversed(calculation_history)
HistoryLines(history) ==
    LET numbered == enumerate1(reversed(history))
    IN [k \in 1..Len(numbered) |->
           <<numbered[k][1], numbered[k][2].operation,
             numbered[k][2].expression, numbered[k][2].result>>]

\* variant: calculation_history.reverse() in place, then a forward loop
get_calculation_history_in_place ==
    /\ request' = [tool |-> "get_calculation_history", args |-> <<>>]
    /\ calculation_history' = reversed(calculation_history)
    /\ IF calculation_history = <<>>
       THEN ret' = [text |-> "No calculations performed yet."]
       ELSE ret' = [text |-> "Calculation History",
                    last |-> Len(calculation_history),
                    lines |-> HistoryLines(calculation_history)]
    /\ UNCHANGED <<stored_values, calls, pc>>

\* calculator://history
get_calculation_history ==
    /\ request' = [tool |-> "get_calculation_history", args |-> <<>>]
    /\ IF calculation_history = <<>>
       THEN ret' = [text |-> "No calculations performed yet."]
       ELSE ret' = [text |-> "Calculation History",
                    last |-> Len(calculation_history),
                    lines |-> HistoryLines(calculation_history)]
    /\ UNCHANGED <<stored_values, calculation_history, calls, pc>>

\* ------------------------------------------------------ calculator service
Next ==
    \/ add
    \/ subtract
    \/ multiply
    \/ divide
    \/ power
    \/ square_root
    \/ percentage
    \/ store_number
    \/ get_stored_number
    \/ list_stored_numbers
    \/ clear_storage
    \/ get_stored_values
    \/ get_calculation_history

Spec == Init /\ [][Next]_vars

\* --------------------------------------------------- feed search service
\* entries of the parsed RSS feed per call
MaxFeed == 3
\* largest max_results passed
MaxResults == 2

\* "SQL", "sql", "Ai", "AI", "ai", ""
SQL == <<83, 81, 76>>
sql == <<115, 113, 108>>
Ai == <<65, 105>>
AI == <<65, 73>>
ai == <<97, 105>>
Empty == <<>>

Entries ==
    { [title |-> SQL, description |-> Empty, link |-> 1, published |-> 11, tags |-> <<>>],
      [title |-> Empty, description |-> Ai, link |-> 2, published |-> 12, tags |-> <<[term |-> sql]>>],
      [title |-> Ai, description |-> Empty, link |-> 3, published |-> 13, tags |-> <<[term |-> SQL], [term |-> ai]>>] }

Feeds == UNION {[1..n -> Entries] : n \in 0..MaxFeed}
Queries == {sql, AI, Empty}

\* str.lower() on ASCII
lower(s) == [i \in 1..Len(s) |-> IF s[i] >= 65 /\ s[i] <= 90 THEN s[i] + 32 ELSE s[i]]

\* needle in haystack
In(needle, haystack) ==
    \E i \in 0..(Len(haystack) - Len(needle)) :
        SubSeq(haystack, i + 1, i + Len(needle)) = needle

\* " ".join(parts)
RECURSIVE join(_)
join(parts) ==
    IF parts = <<>> THEN <<>>
    ELSE IF Len(parts) = 1 THEN Head(parts)
    ELSE Head(parts) \o <<32>> \o join(Tail(parts))

SearchMatches(entry, query) ==
    \/ In(lower(query), lower(entry.title))
    \/ In(lower(query), lower(entry.description))

CategoryMatches(entry, category) ==
    LET tags == join([i \in 1..Len(entry.tags) |-> lower(entry.tags[i].term)])
    IN \/ In(lower(category), lower(entry.title))
       \/ In(lower(category), lower(entry.description))
       \/ In(lower(category), tags)

SearchItem(entry) ==
    [title |-> entry.title, url |-> entry.link, published |-> entry.published]

CategoryItem(entry, category) ==
    [title |-> entry.title, url |-> entry.link, category_match |-> category,
     published |-> entry.published]

\* for entry in feed.entries: append on a match, then break once
\* len(results) >= max_results
RECURSIVE SearchLoop(_, _, _, _, _)
SearchLoop(entries, i, results, query, max_results) ==
    IF i > Len(entries) THEN results
    ELSE LET appended == IF SearchMatches(entries[i], query)
                         THEN Append(results, SearchItem(entries[i]))
                         ELSE results
         IN IF Len(appended) >= max_results THEN appended
            ELSE SearchLoop(entries, i + 1, appended, query, max_results)

RECURSIVE CategoryLoop(_, _, _, _, _)
CategoryLoop(entries, i, results, category, max_results) ==
    IF i > Len(entries) THEN results
    ELSE LET appended == IF CategoryMatches(entries[i], category)
                         THEN Append(results, CategoryItem(entries[i], category))
                         ELSE results
         IN IF Len(appended) >= max_results THEN appended
            ELSE CategoryLoop(entries, i + 1, appended, category, max_results)

search_teradata_university ==
    \E feed \in Feeds, query \in Queries, max_results \in 0..MaxResults :
        LET results == SearchLoop(feed, 1, <<>>, query, max_results) IN
        /\ request' = [tool |-> "search_teradata_university",
                       args |-> <<query, max_results>>, feed |-> feed]
        /\ ret' = [results |-> IF results # <<>> THEN results
                               ELSE <<[message |-> "No content found matching your query"]>>]
        /\ UNCHANGED <<stored_values, calculation_history, calls, pc>>

get_content_by_category ==
    \E feed \in Feeds, category \in Queries, max_results \in 0..MaxResults :
        LET results == CategoryLoop(feed, 1, <<>>, category, max_results) IN
        /\ request' = [tool |-> "get_content_by_category",
                       args |-> <<category, max_results>>, feed |-> feed]
        /\ ret' = [results |-> IF results # <<>> THEN results
                               ELSE <<[message |-> <<"No content found for category", category>>]>>]
        /\ UNCHANGED <<stored_values, calculation_history, calls, pc>>

NextFeed ==
    \/ search_teradata_university
    \/ get_content_by_category

SpecFeed == Init /\ [][NextFeed]_vars

\* ------------------------------------- recording calls on parallel threads
\* The recording tools dispatched on threads with no lock: a call is at
\* "idle" (not in _add_to_history), at "test" (its record is appended) or
\* at "pop" (it has seen len > 10).  Return values are not tracked here.
RecordingTools == {"add", "subtract", "multiply", "divide", "power"}

Compute(operation, a, b) ==
    CASE operation = "add" -> a + b
      [] operation = "subtract" -> a - b
      [] operation = "multiply" -> a * b
      [] operation = "divide" -> TrueDiv(a, b)
      [] operation = "power" -> Pow(a, b)

\* calculation_history.append({...})
thread_append ==
    \E t \in Threads, operation \in RecordingTools,
       a \in FirstOperands, b \in SecondOperands :
        LET record == HistoryRecord(operation, a, b, Compute(operation, a, b)) IN
        /\ pc[t] = "idle"
        /\ WithinBounds(operation)
        /\ calculation_history' = Append(calculation_history, record)
        /\ calls' = Append(calls, record)
        /\ pc' = [pc EXCEPT ![t] = "test"]
        /\ UNCHANGED <<stored_values, request, ret>>

\* if len(calculation_history) > 10
thread_test ==
    \E t \in Threads :
        /\ pc[t] = "test"
        /\ pc' = [pc EXCEPT ![t] = IF Len(calculation_history) > 10 THEN "pop" ELSE "idle"]
        /\ UNCHANGED <<stored_values, calculation_history, calls, request, ret>>

\* variant: pop() in place of pop(0)
thread_pop_last ==
    \E t \in Threads :
        /\ pc[t] = "pop"
        /\ IF calculation_history = <<>>
           THEN /\ pc' = [pc EXCEPT ![t] = "raised"]
                /\ UNCHANGED calculation_history
           ELSE /\ calculation_history' =
                       SubSeq(calculation_history, 1, Len(calculation_history) - 1)
                /\ pc' = [pc EXCEPT ![t] = "idle"]
        /\ UNCHANGED <<stored_values, calls, request, ret>>

\* calculation_history.pop(0); IndexError on an empty list
thread_pop ==
    \E t \in Threads :
        /\ pc[t] = "pop"
        /\ IF calculation_history = <<>>
           THEN /\ pc' = [pc EXCEPT ![t] = "raised"]
                /\ UNCHANGED calculation_history
           ELSE /\ calculation_history' = Tail(calculation_history)
                /\ pc' = [pc EXCEPT ![t] = "idle"]
        /\ UNCHANGED <<stored_values, calls, request, ret>>

NextThreads ==
    \/ thread_append
    \/ thread_test
    \/ thread_pop

SpecThreads == Init /\ [][NextThreads]_vars

\* ================================================================ properties
Last(s) == s[Len(s)]

Min(x, y) == IF x < y THEN x ELSE y

\* C1: after n recording calls from an empty history, calculation_history
\* holds exactly the last min(n, 10) records in call order: length n while
\* n <= 10, length 10 beyond, the oldest being the (n-10+1)-th call's record.
C1_LastTenInCallOrder ==
    LET n == Len(calls)
        k == Min(n, 10)
    IN /\ Len(calculation_history) = k
       /\ \A i \in 1..k : calculation_history[i] = calls[n - k + i]

\* two records have been evicted and the survivors are not all alike
C1_Witness ==
    /\ Len(calls) = 12
    /\ Len(calculation_history) = 10
    /\ calculation_history[1] = calls[3]
    /\ calls[2] # calls[3]

\* C2: in every reachable state of the calculator service the length of
\* calculation_history is at most 10.
C2_AtMostTen == Len(calculation_history) <= 10

\* a full history after more than ten recording calls
C2_Witness ==
    /\ Len(calculation_history) = 10
    /\ Len(calls) > 10
    /\ request.tool = "power"

FailedCall(r) ==
    \/ r.tool = "divide" /\ r.args[2] = 0
    \/ r.tool = "square_root" /\ r.args[1] < 0
    \/ r.tool = "percentage" /\ r.args[2] = 0

\* C3: divide with b = 0, square_root with number < 0 and percentage with
\* total = 0 each return an error value and leave calculation_history and
\* stored_values exactly as they were before the call.
C3_FailedCallLeavesState ==
    [][FailedCall(request') =>
          /\ "error" \in DOMAIN ret'
          /\ "result" \notin DOMAIN ret'
          /\ calculation_history' = calculation_history
          /\ stored_values' = stored_values]_vars

\* a failed divide answered with an error while both structures hold data
C3_Witness ==
    /\ request.tool = "divide"
    /\ request.args[2] = 0
    /\ "error" \in DOMAIN ret
    /\ calculation_history # <<>>
    /\ stored_values # <<>>

ArithmeticTools ==
    {"add", "subtract", "multiply", "divide", "power", "square_root", "percentage"}

\* C4: every arithmetic handler that computes a result successfully (add,
\* subtract, multiply, power, divide with b # 0, square_root with
\* number >= 0, percentage with total # 0) records it: the call appends
\* exactly one record for it as the newest entry of calculation_history.
C4_SuccessIsRecorded ==
    [][(request'.tool \in ArithmeticTools /\ "result" \in DOMAIN ret') =>
          /\ Len(calls') = Len(calls) + 1
          /\ calculation_history' # <<>>
          /\ Last(calculation_history').operation = request'.tool
          /\ Last(calculation_history').result = ret'.result
          /\ Last(calculation_history') = Last(calls')]_vars

Occurrences(d, name) == Cardinality({i \in 1..Len(d) : d[i][1] = name})

ValuesOf(d, name) == {d[i][2] : i \in {j \in 1..Len(d) : d[j][1] = name}}

\* C5: store_number(name, v1) followed later by store_number(name, v2),
\* with store_number calls on other names in between, leaves exactly one
\* entry for name, with value v2; the second call does not change the
\* number of entries and get_stored_number(name) then returns v2.
C5_LastWriteWins ==
    [][/\ request'.tool = "store_number" =>
            LET name == request'.args[1]
                value == request'.args[2]
            IN /\ Occurrences(stored_values', name) = 1
               /\ ValuesOf(stored_values', name) = {value}
               /\ name \in Keys(stored_values) =>
                      Len(stored_values') = Len(stored_values)
               /\ \A other \in Names \ {name} :
                      /\ Occurrences(stored_values', other) = Occurrences(stored_values, other)
                      /\ ValuesOf(stored_values', other) = ValuesOf(stored_values, other)
       /\ (request'.tool = "get_stored_number" /\ request'.args[1] \in Keys(stored_values)) =>
            /\ ret'.status = "found"
            /\ {ret'.value} = ValuesOf(stored_values, request'.args[1])
            /\ stored_values' = stored_values]_vars

\* "a" was stored before "b" and has just been stored again
C5_Witness ==
    /\ request.tool = "store_number"
    /\ request.args = <<<<97>>, 2>>
    /\ stored_values = <<<<<<97>>, 2>>, <<<<98>>, 1>>>>
    /\ ret.stored_count = 2

\* C6: get_stored_number(name) for a name not currently in stored_values
\* returns the not-found outcome, never a value, and does not change
\* stored_values.
C6_AbsentIsNotFound ==
    [][(request'.tool = "get_stored_number" /\ request'.args[1] \notin Keys(stored_values)) =>
          /\ ret'.status = "not_found"
          /\ "error" \in DOMAIN ret'
          /\ "value" \notin DOMAIN ret'
          /\ stored_values' = stored_values]_vars

\* a lookup of an absent name while another name is stored
C6_Witness ==
    /\ request.tool = "get_stored_number"
    /\ request.args[1] \notin Keys(stored_values)
    /\ stored_values # <<>>
    /\ ret.status = "not_found"

SortedByName(items) ==
    \A i \in 1..(Len(items) - 1) : StrLess(items[i][1], items[i + 1][1])

ItemSet(items) == {items[i] : i \in 1..Len(items)}

\* C7: enumerating the value store yields its (name, value) pairs sorted
\* lexicographically by name whatever the order of the stores, on both
\* enumeration surfaces: the list_stored_numbers tool and the
\* calculator://stored-values resource.
C7_EnumerationSorted ==
    /\ request.tool = "list_stored_numbers" =>
           /\ ItemSet(ret.stored_values) = ItemSet(stored_values)
           /\ SortedByName(ret.stored_values)
    /\ (request.tool = "get_stored_values" /\ stored_values # <<>>) =>
           /\ ItemSet(ret.lines) = ItemSet(stored_values)
           /\ SortedByName(ret.lines)

\* C8: clear_storage on a store of N entries reports N removed entries and
\* leaves stored_values empty, so that get_stored_number answers not-found
\* until a new store_number.
C8_ClearReportsCount ==
    [][/\ request'.tool = "clear_storage" =>
            /\ ret'.message = <<"Cleared", Len(stored_values), "stored value(s)">>
            /\ stored_values' = <<>>
       /\ (request'.tool = "get_stored_number" /\ stored_values = <<>>) =>
            /\ ret'.status = "not_found"
            /\ stored_values' = <<>>]_vars

\* a clear that removed two entries
C8_Witness ==
    /\ request.tool = "clear_storage"
    /\ ret.message[2] = 2
    /\ stored_values = <<>>

\* C9: reading calculator://history renders the records most-recent-first,
\* entry 1 being the latest recorded calculation, and leaves
\* calculation_history unchanged in content and order.
C9_ReadIsReverseAndPure ==
    [][request'.tool = "get_calculation_history" =>
          /\ calculation_history' = calculation_history
          /\ calculation_history # <<>> =>
                LET n == Len(calculation_history) IN
                /\ Len(ret'.lines) = n
                /\ \A i \in 1..n :
                      ret'.lines[i] =
                          <<i, calculation_history[n + 1 - i].operation,
                            calculation_history[n + 1 - i].expression,
                            calculation_history[n + 1 - i].result>>]_vars

\* a read of a full history, after an eviction, whose ends differ
C9_Witness ==
    /\ request.tool = "get_calculation_history"
    /\ Len(calls) > 10
    /\ Len(ret.lines) = 10
    /\ ret.lines[1][2] = Last(calls).operation
    /\ calculation_history[1] # calculation_history[10]

FeedTools == {"search_teradata_university", "get_content_by_category"}

\* the entries of the feed that match, in feed order, as returned items
RECURSIVE MatchingItems(_, _, _)
MatchingItems(tool, entries, word) ==
    IF entries = <<>> THEN <<>>
    ELSE LET rest == MatchingItems(tool, Tail(entries), word)
             e == Head(entries)
         IN IF tool = "search_teradata_university"
            THEN IF SearchMatches(e, word) THEN <<SearchItem(e)>> \o rest ELSE rest
            ELSE IF CategoryMatches(e, word) THEN <<CategoryItem(e, word)>> \o rest ELSE rest

Articles(results) == IF "message" \in DOMAIN results[1] THEN <<>> ELSE results

\* C10: for every feed and every max_results >= 0, both search tools return
\* at most max_results matching articles (the no-match message entry is not
\* an article), and those are the first matches in feed order.
C10_AtMostMaxResults ==
    request.tool \in FeedTools =>
        LET articles == Articles(ret.results)
            matches == MatchingItems(request.tool, request.feed, request.args[1])
        IN /\ Len(articles) <= request.args[2]
           /\ Len(articles) <= Len(matches)
           /\ articles = SubSeq(matches, 1, Len(articles))

AllCompleted == \A t \in Threads : pc[t] \in {"idle", "raised"}

\* C11 as stated: when recording calls interleave at the steps of
\* _add_to_history (append; test len > 10; pop(0)) with no lock, then once
\* all calls have completed the history has length min(n, 10) for n
\* records and none of the most recent min(n, 10) has been evicted.
C11_ThreadsKeepLastTen ==
    AllCompleted =>
        LET n == Len(calls)
            k == Min(n, 10)
        IN /\ Len(calculation_history) = k
           /\ calculation_history = SubSeq(calls, n - k + 1, n)

\* C11 as amended: once all interleaved calls have completed the history
\* holds at most min(n, 10) records, they are the most recent ones in
\* append order, and no call has raised; but calls that all test before any
\* of them pops each evict a record, so with NumThreads calls in flight the
\* length can be as low as min(n, 10) - (NumThreads - 1).
C11_ThreadsKeepSuffix ==
    AllCompleted =>
        LET n == Len(calls)
            k == Min(n, 10)
            len == Len(calculation_history)
        IN /\ len <= k
           /\ len >= k - (NumThreads - 1)
           /\ calculation_history = SubSeq(calls, n - len + 1, n)
           /\ \A t \in Threads : pc[t] = "idle"

\* all calls are back after eleven records and only nine are held
C11_Witness ==
    /\ AllCompleted
    /\ Len(calls) >= 11
    /\ Len(calculation_history) = 9
    /\ calculation_history = SubSeq(calls, Len(calls) - 8, Len(calls))

====
